---- MODULE Spec2Model ----
(***************************************************************************)
(* A model of python_logo: the tree-walking Interpreter                    *)
(* (src/python_logo/interpreter.py) run over a catalogue of command trees. *)
(* The generator chain _interpret / _handle_* is a stack of frames; every  *)
(* command handler is one action.  The command tree is a mutable Python    *)
(* object: handlers that write into it (setpos, list_make, list) write     *)
(* into the variable tree, which outlives the Interpreter built over it.   *)
(***************************************************************************)
EXTENDS Integers, Sequences, FiniteSets, TLC

VARIABLES
    prog,        \* which catalogue program the tree was parsed from
    tree,        \* the command tree object handed to Interpreter(tree)
    _variables,  \* Interpreter._variables
    _fuctions,   \* Interpreter._fuctions (insertion-ordered dict)
    _lists,      \* Interpreter._lists
    stack,       \* the active generator frames of the current iteration
    yielded,     \* the commands the current iteration has yielded so far
    raised,      \* the exception that ended the current iteration, if any
    phase,       \* "new" (no Interpreter), "ready" or "failed" (constructed),
                 \* "suspended" (at a yield), "running", "finished"
    runs,        \* how many Interpreters have been constructed over this tree
    iters,       \* how many times the current Interpreter has been iterated
    stopped,     \* a next() on the finished generator has raised StopIteration
    earlier,     \* what the consumer got from the Interpreter's previous iteration
    \* src/python_logo/events.py, for one client (request.sid):
    connected,   \* the client is connected
    workers,     \* workers[request.sid]: the registered worker, 0 when absent
    _switch,     \* _Worker._switch of each worker
    logo_runner, \* how many commands each worker has pulled from its run(code)
    start_pc,    \* where each worker's start() is
    on_run_pc,   \* where the on_run handler that made each worker is
    stopping,    \* on_stop handlers asleep in stop(), before their del
    stops,       \* stop events received
    emitted      \* the events emitted to the client for each worker's run, in order

interpreterVars == <<prog, tree, _variables, _fuctions, _lists, stack, yielded,
                     raised, phase, runs, iters, stopped, earlier>>
workerVars == <<connected, workers, _switch, logo_runner, start_pc, on_run_pc,
                stopping, stops, emitted>>
vars == <<interpreterVars, workerVars>>

(***************************************************************************)
(* Bounds of the model.                                                    *)
(***************************************************************************)
MaxArg == 3       \* program parameters (counts, depths, indices) range over 0..MaxArg
MaxRuns == 2      \* Interpreters constructed over one tree
MaxIters == 2     \* iterations of one Interpreter
MaxWorkers == 2   \* run events of the client
MaxCommands == 2  \* commands a worker's program yields
MaxStops == 1     \* stop events of the client

(***************************************************************************)
(* Python objects.  Scalars carry their type in k; the model's numbers are *)
(* integers, so a float is an integer-valued float.                        *)
(***************************************************************************)
Float(n) == [k |-> "float", n |-> n, s |-> ""]
PyInt(n) == [k |-> "int", n |-> n, s |-> ""]
PyBool(b) == [k |-> "bool", n |-> IF b THEN 1 ELSE 0, s |-> ""]
Str(s) == [k |-> "str", n |-> 0, s |-> s]
None == [k |-> "none", n |-> 0, s |-> ""]
Dict(d) == [k |-> "dict", d |-> d]
PyList(xs) == [k |-> "list", xs |-> xs]

Var(name) == Str(name)
Bin(op, l, r) == Dict([op |-> op, left |-> l, right |-> r])
ListQuery(list_name, function, index) ==
    Dict([name |-> "list", list_name |-> list_name, function |-> function,
          index |-> index])

IsNum(v) == v.k \in {"float", "int", "bool"}
NumKind(a, b) == IF "float" \in {a.k, b.k} THEN "float" ELSE "int"
Num(k, n) == [k |-> k, n |-> n, s |-> ""]

\* bool(x)
Truthy(v) ==
    CASE IsNum(v) -> v.n # 0
      [] v.k = "str" -> v.s # ""
      [] v.k = "list" -> v.xs # <<>>
      [] v.k = "dict" -> DOMAIN v.d # {}
      [] OTHER -> FALSE

\* x == y
PyEq(a, b) ==
    CASE IsNum(a) /\ IsNum(b) -> a.n = b.n
      [] a.k = "str" /\ b.k = "str" -> a.s = b.s
      [] a.k = "none" /\ b.k = "none" -> TRUE
      [] OTHER -> FALSE

(***************************************************************************)
(* Exceptions.  cause is the exception of "raise ... from err".            *)
(***************************************************************************)
Exc(type, name, expected, received, cause) ==
    [type |-> type, name |-> name, expected |-> expected,
     received |-> received, cause |-> cause]
Builtin(type) == Exc(type, "", 0, 0, <<>>)
KeyError == Builtin("KeyError")
From(type, name, err) == Exc(type, name, 0, 0, <<err>>)

\* the classes of python_logo.exceptions are taken to derive from Exception
IsKeyError(e) == e.type = "KeyError"

Ok(v, ctx) == [val |-> v, exc |-> <<>>, ctx |-> ctx]
Err(e, ctx) == [val |-> None, exc |-> <<e>>, ctx |-> ctx]

RECURSIVE Pow(_, _)
Pow(a, b) == IF b <= 0 THEN 1 ELSE a * Pow(a, b - 1)

\* int(x): a float truncates (the model's floats are whole), a str that is
\* not a numeral is a ValueError, anything else a TypeError
ToInt(v) ==
    CASE IsNum(v) -> [n |-> v.n, exc |-> <<>>]
      [] v.k = "str" -> [n |-> 0, exc |-> <<Builtin("ValueError")>>]
      [] OTHER -> [n |-> 0, exc |-> <<Builtin("TypeError")>>]

TypeError == [val |-> None, exc |-> <<Builtin("TypeError")>>]
Val(v) == [val |-> v, exc |-> <<>>]

\* The operators of _evaluate applied to two evaluated operands.  The only
\* str an evaluation can produce is "" (an unbound parameter), so str
\* ordering is only needed between equal strings.  Quotients and negative
\* powers are exact in every catalogue program.
BinaryOp(op, a, b) ==
    LET num == IsNum(a) /\ IsNum(b)
        str == a.k = "str" /\ b.k = "str"
    IN  CASE op = "+" -> IF num THEN Val(Num(NumKind(a, b), a.n + b.n))
                         ELSE IF str THEN Val(Str(a.s \o b.s)) ELSE TypeError
          [] op = "-" -> IF num THEN Val(Num(NumKind(a, b), a.n - b.n)) ELSE TypeError
          [] op = "*" -> IF num THEN Val(Num(NumKind(a, b), a.n * b.n))
                         ELSE IF a.k = "str" /\ b.k \in {"int", "bool"} /\ a.s = ""
                              THEN Val(a)
                         ELSE IF b.k = "str" /\ a.k \in {"int", "bool"} /\ b.s = ""
                              THEN Val(b)
                         ELSE TypeError
          [] op = "/" -> IF ~num THEN TypeError
                         ELSE IF b.n = 0
                              THEN [val |-> None, exc |-> <<Builtin("ZeroDivisionError")>>]
                         ELSE Val(Float(a.n \div b.n))
          [] op = "^" -> IF ~num THEN TypeError
                         ELSE IF b.n >= 0 THEN Val(Num(NumKind(a, b), Pow(a.n, b.n)))
                         ELSE IF a.n = 0
                              THEN [val |-> None, exc |-> <<Builtin("ZeroDivisionError")>>]
                         ELSE Val(Float(1 \div Pow(a.n, 0 - b.n)))
          [] op = ">" -> IF num THEN Val(PyBool(a.n > b.n))
                         ELSE IF str THEN Val(PyBool(FALSE)) ELSE TypeError
          [] op = ">=" -> IF num THEN Val(PyBool(a.n >= b.n))
                          ELSE IF str THEN Val(PyBool(a.s = b.s)) ELSE TypeError
          [] op = "<" -> IF num THEN Val(PyBool(a.n < b.n))
                         ELSE IF str THEN Val(PyBool(FALSE)) ELSE TypeError
          [] op = "<=" -> IF num THEN Val(PyBool(a.n <= b.n))
                          ELSE IF str THEN Val(PyBool(a.s = b.s)) ELSE TypeError
          [] op = "=" -> Val(PyBool(PyEq(a, b)))
          [] op = "<>" -> Val(PyBool(~PyEq(a, b)))

BinaryOps == {"+", "-", "*", "/", "^", ">", ">=", "<", "<=", "=", "<>"}

(***************************************************************************)
(* The command tree.  A command sequence is named by the path that leads   *)
(* to it from tree["tokens"]: each step picks command i and its field f    *)
(* ("commands" or "else_commands").  The lists of commands are never       *)
(* rebuilt, so a path is a stable reference to the Python list object.     *)
(***************************************************************************)
RECURSIVE Walk(_, _)
Walk(cmds, path) ==
    IF path = <<>> THEN cmds
    ELSE Walk(cmds[path[1].i][path[1].f], Tail(path))

CmdsAt(t, path) == Walk(t["tokens"], path)

RECURSIVE SetNode(_, _, _, _)
SetNode(cmds, path, i, node) ==
    IF path = <<>> THEN [cmds EXCEPT ![i] = node]
    ELSE [cmds EXCEPT ![path[1].i] =
            [@ EXCEPT ![path[1].f] = SetNode(@, Tail(path), i, node)]]

\* command[field] = value on the command object at (path, i)
SetField(t, path, i, field, value) ==
    [t EXCEPT !["tokens"] =
        SetNode(@, path, i, [CmdsAt(t, path)[i] EXCEPT ![field] = value])]

Step(i, f) == [i |-> i, f |-> f]

(***************************************************************************)
(* The execution context handed through an evaluation: the three tables of *)
(* the Interpreter and the tree they point into.  An entry of lists is a   *)
(* reference: to the literal of a list_make node of the tree (lit), or to  *)
(* a list no one else holds (the [] made for "empty").                     *)
(***************************************************************************)
Ctx(v, f, l, t) == [variables |-> v, fuctions |-> f, lists |-> l, tree |-> t]

LitRef(path, i) == [lit |-> TRUE, path |-> path, i |-> i, xs |-> <<>>]
OwnRef(xs) == [lit |-> FALSE, path |-> <<>>, i |-> 0, xs |-> xs]

Deref(ref, t) == IF ref.lit THEN CmdsAt(t, ref.path)[ref.i].list.xs ELSE ref.xs
GetList(ctx, name) == Deref(ctx.lists[name], ctx.tree)

\* an in-place change of the list object lists[name] refers to
PutList(ctx, name, xs) ==
    LET ref == ctx.lists[name]
    IN  IF ref.lit
        THEN [ctx EXCEPT !.tree = SetField(@, ref.path, ref.i, "list", PyList(xs))]
        ELSE [ctx EXCEPT !.lists = [@ EXCEPT ![name] = OwnRef(xs)]]

\* for func_data in self._fuctions.values(): if value in func_data["arguments"]
ArgLookup(fs, name) ==
    LET hits == {i \in 1..Len(fs) :
                    \E j \in 1..Len(fs[i].arguments) : fs[i].arguments[j].name = name}
    IN  IF hits = {} THEN <<>>
        ELSE LET i == CHOOSE h \in hits : \A g \in hits : h <= g
                 j == CHOOSE j \in 1..Len(fs[i].arguments) :
                          fs[i].arguments[j].name = name
             IN  <<fs[i].arguments[j].val>>

\* an insert that puts the value one place further on
InsertAt_after(xs, pos, v) ==
    IF pos < Len(xs)
    THEN SubSeq(xs, 1, pos + 1) \o <<v>> \o SubSeq(xs, pos + 2, Len(xs))
    ELSE Append(xs, v)

InsertAt(xs, pos, v) == SubSeq(xs, 1, pos) \o <<v>> \o SubSeq(xs, pos + 1, Len(xs))
RemoveAt(xs, pos) == SubSeq(xs, 1, pos - 1) \o SubSeq(xs, pos + 1, Len(xs))

\* Python's index normalisation for xs[i] and xs.pop(i): 0 when out of range,
\* else the 1-based position
Position(i, n) ==
    LET j == IF i < 0 THEN i + n ELSE i
    IN  IF j < 0 \/ j >= n THEN 0 ELSE j + 1

\* list.insert clamps its index into 0..n
InsertPosition(i, n) ==
    LET j == IF i < 0 THEN i + n ELSE i
    IN  IF j < 0 THEN 0 ELSE IF j > n THEN n ELSE j

UnboundVariableList == From("UnboundVariableList", "", KeyError)
InvalidTree == From("InvalidTree", "", KeyError)
InvalidCommand == Builtin("InvalidCommand")
UnboundLocalError == Builtin("UnboundLocalError")

RECURSIVE _evaluate(_, _), _handle_list(_, _), AllOf(_, _), AnyOf(_, _)

\* Interpreter._handle_list.  xs is assigned only when list_name is a key of
\* _lists; every branch of the match reads it.
_handle_list(command, ctx) ==
    IF "list_name" \notin DOMAIN command \/ "function" \notin DOMAIN command
    THEN Err(UnboundVariableList, ctx)
    ELSE
    LET name == command.list_name
        bound == name \in DOMAIN ctx.lists
        fn == command.function
        hasIndex == "index" \in DOMAIN command
        hasValue == "value" \in DOMAIN command
    IN  CASE fn = "empty" ->
               IF ~bound THEN Err(UnboundLocalError, ctx)
               ELSE Ok(PyBool(GetList(ctx, name) = <<>>), ctx)
          [] fn = "len" ->
               IF ~bound THEN Err(UnboundLocalError, ctx)
               ELSE Ok(PyInt(Len(GetList(ctx, name))), ctx)
          [] fn = "get" ->
               IF ~hasIndex THEN Err(UnboundVariableList, ctx)
               ELSE LET e == _evaluate(command.index, ctx)
                        i == ToInt(e.val)
                    IN  IF e.exc # <<>> THEN e
                        ELSE IF i.exc # <<>> THEN Err(i.exc[1], e.ctx)
                        ELSE IF ~bound THEN Err(UnboundLocalError, e.ctx)
                        ELSE LET xs == GetList(e.ctx, name)
                                 p == Position(i.n, Len(xs))
                             IN  IF p = 0 THEN Err(Builtin("IndexError"), e.ctx)
                                 ELSE Ok(xs[p], e.ctx)
          [] fn = "set" ->
               IF ~hasValue THEN Err(UnboundVariableList, ctx)
               ELSE LET e == _evaluate(command.value, ctx)
                        i == ToInt(command.index)
                    IN  IF e.exc # <<>> THEN e
                        ELSE IF ~bound THEN Err(UnboundLocalError, e.ctx)
                        ELSE IF ~hasIndex THEN Err(UnboundVariableList, e.ctx)
                        ELSE IF i.exc # <<>> THEN Err(i.exc[1], e.ctx)
                        ELSE LET xs == GetList(e.ctx, name)
                                 p == Position(i.n, Len(xs))
                             IN  IF p = 0 THEN Err(Builtin("IndexError"), e.ctx)
                                 ELSE Ok(None, PutList(e.ctx, name,
                                                       [xs EXCEPT ![p] = e.val]))
          [] fn = "insert" ->
               IF ~bound THEN Err(UnboundLocalError, ctx)
               ELSE IF ~hasIndex THEN Err(UnboundVariableList, ctx)
               ELSE LET i == ToInt(command.index)
                    IN  IF i.exc # <<>> THEN Err(i.exc[1], ctx)
                        ELSE IF ~hasValue THEN Err(UnboundVariableList, ctx)
                        ELSE LET e == _evaluate(command.value, ctx)
                                 xs == GetList(e.ctx, name)
                             IN  IF e.exc # <<>> THEN e
                                 ELSE Ok(None, PutList(e.ctx, name,
                                        InsertAt(xs, InsertPosition(i.n, Len(xs)), e.val)))
          [] fn = "remove" ->
               IF ~bound THEN Err(UnboundLocalError, ctx)
               ELSE IF ~hasIndex THEN Err(UnboundVariableList, ctx)
               ELSE LET i == ToInt(command.index)
                        xs == GetList(ctx, name)
                        p == Position(i.n, Len(xs))
                    IN  IF i.exc # <<>> THEN Err(i.exc[1], ctx)
                        ELSE IF p = 0 THEN Err(Builtin("IndexError"), ctx)
                        ELSE Ok(None, PutList(ctx, name, RemoveAt(xs, p)))
          [] fn = "remove_value" ->
               IF ~bound THEN Err(UnboundLocalError, ctx)
               ELSE IF ~hasValue THEN Err(UnboundVariableList, ctx)
               ELSE LET e == _evaluate(command.value, ctx)
                        xs == GetList(e.ctx, name)
                        found == {p \in 1..Len(xs) : PyEq(xs[p], e.val)}
                    IN  IF e.exc # <<>> THEN e
                        ELSE IF found = {} THEN Err(Builtin("ValueError"), e.ctx)
                        ELSE Ok(None, PutList(e.ctx, name,
                               RemoveAt(xs, CHOOSE p \in found : \A q \in found : p <= q)))
          [] OTHER -> Err(InvalidCommand, ctx)

\* all(self._evaluate(expr) for expr in value["list"]): stops at the first falsy
AllOf(exprs, ctx) ==
    IF exprs = <<>> THEN Ok(PyBool(TRUE), ctx)
    ELSE LET h == _evaluate(Head(exprs), ctx)
         IN  IF h.exc # <<>> THEN h
             ELSE IF ~Truthy(h.val) THEN Ok(PyBool(FALSE), h.ctx)
             ELSE AllOf(Tail(exprs), h.ctx)

\* any(...): stops at the first truthy
AnyOf(exprs, ctx) ==
    IF exprs = <<>> THEN Ok(PyBool(FALSE), ctx)
    ELSE LET h == _evaluate(Head(exprs), ctx)
         IN  IF h.exc # <<>> THEN h
             ELSE IF Truthy(h.val) THEN Ok(PyBool(TRUE), h.ctx)
             ELSE AnyOf(Tail(exprs), h.ctx)

\* Interpreter._evaluate
_evaluate(value, ctx) ==
    CASE value.k = "float" -> Ok(value, ctx)
      [] value.k = "str" ->
           LET hit == ArgLookup(ctx.fuctions, value.s)
           IN  IF hit # <<>> THEN Ok(hit[1], ctx)
               ELSE IF value.s = "true" THEN Ok(PyBool(TRUE), ctx)
               ELSE IF value.s = "false" THEN Ok(PyBool(FALSE), ctx)
               ELSE IF value.s \in DOMAIN ctx.variables
                    THEN Ok(ctx.variables[value.s], ctx)
               ELSE Err(From("UnboundVariable", value.s, KeyError), ctx)
      [] value.k = "dict" ->
           LET d == value.d
           IN  IF "name" \in DOMAIN d /\ d.name = "list" THEN _handle_list(d, ctx)
               ELSE IF "op" \notin DOMAIN d THEN Err(InvalidTree, ctx)
               ELSE IF d.op \in BinaryOps THEN
                   IF "left" \notin DOMAIN d THEN Err(InvalidTree, ctx)
                   ELSE LET l == _evaluate(d.left, ctx)
                        IN  IF l.exc # <<>> THEN l
                            ELSE IF "right" \notin DOMAIN d THEN Err(InvalidTree, l.ctx)
                            ELSE LET r == _evaluate(d.right, l.ctx)
                                     b == BinaryOp(d.op, l.val, r.val)
                                 IN  IF r.exc # <<>> THEN r
                                     ELSE IF b.exc # <<>> THEN Err(b.exc[1], r.ctx)
                                     ELSE Ok(b.val, r.ctx)
               ELSE IF d.op = "neg" THEN
                   IF "value" \notin DOMAIN d THEN Err(InvalidTree, ctx)
                   ELSE LET e == _evaluate(d.value, ctx)
                        IN  IF e.exc # <<>> THEN e
                            ELSE IF ~IsNum(e.val) THEN Err(Builtin("TypeError"), e.ctx)
                            ELSE Ok(Num(IF e.val.k = "float" THEN "float" ELSE "int",
                                        0 - e.val.n), e.ctx)
               ELSE IF d.op \in {"and", "or"} THEN
                   IF "list" \notin DOMAIN d THEN Err(InvalidTree, ctx)
                   ELSE IF d.list.k # "list" THEN Err(Builtin("TypeError"), ctx)
                   ELSE IF d.op = "and" THEN AllOf(d.list.xs, ctx)
                   ELSE AnyOf(d.list.xs, ctx)
               ELSE IF d.op = "not" THEN
                   IF "expr" \notin DOMAIN d THEN Err(InvalidTree, ctx)
                   ELSE LET e == _evaluate(d.expr, ctx)
                        IN  IF e.exc # <<>> THEN e
                            ELSE Ok(PyBool(~Truthy(e.val)), e.ctx)
               ELSE Err(InvalidCommand, ctx)
      [] OTHER -> Err(Exc("InvalidTree", "", 0, 0, <<>>), ctx)

(***************************************************************************)
(* Generator frames.  _interpret(commands) is an "interpret" frame at      *)
(* command pc of the sequence cmds; _handle_func_call and _handle_repeat   *)
(* stay on the stack below the _interpret they delegate to.  _handle_if    *)
(* adds nothing to what passes through it and has no frame of its own.     *)
(***************************************************************************)
Frame(k, cmds, pc, func_name, n) ==
    [k |-> k, cmds |-> cmds, pc |-> pc, func_name |-> func_name, n |-> n]
InterpretFrame(cmds) == Frame("interpret", cmds, 1, "", 0)
FuncCallFrame(func_name) == Frame("func_call", <<>>, 0, func_name, 0)
RepeatFrame(cmds, n) == Frame("repeat", cmds, 1, "", n)

\* What a handler did: the context it left, the exception it raised, the
\* commands it yielded, the frames it delegates to.
Res(ctx, out, push) == [ctx |-> ctx, exc |-> <<>>, out |-> out, push |-> push]
Fail(e, ctx) == [ctx |-> ctx, exc |-> <<e>>, out |-> <<>>, push |-> <<>>]

\* An exception travelling up the generator chain: _interpret turns a
\* KeyError into InvalidTree (lines 88-89), _handle_func_call wraps whatever
\* its body raised (lines 131-134).
\* the except clauses without the wrapping of lines 131-134
Reraise_bare(frame, e) ==
    CASE frame.k = "interpret" ->
           IF IsKeyError(e) THEN From("InvalidTree", "", e) ELSE e
      [] OTHER -> e

\* what the except clauses of one frame make of an exception passing through
Reraise(frame, e) ==
    CASE frame.k = "interpret" ->
           IF IsKeyError(e) THEN From("InvalidTree", "", e) ELSE e
      [] frame.k = "func_call" ->
           From("FunctionExecutionError", frame.func_name, e)
      [] OTHER -> e

RECURSIVE Unwind(_, _)
Unwind(stk, e) ==
    IF stk = <<>> THEN e
    ELSE Unwind(SubSeq(stk, 1, Len(stk) - 1), Reraise(stk[Len(stk)], e))

Has(command, field) == field \in DOMAIN command

FuncIndex(fs, func_name) ==
    IF \E i \in 1..Len(fs) : fs[i].name = func_name
    THEN CHOOSE i \in 1..Len(fs) : fs[i].name = func_name
    ELSE 0

\* the keys of the dict built by arguments[argument] = "" over the parameters
RECURSIVE ArgumentDict(_)
ArgumentDict(params) ==
    IF params = <<>> THEN <<>>
    ELSE LET rest == ArgumentDict(SubSeq(params, 1, Len(params) - 1))
             last == params[Len(params)]
         IN  IF \E j \in 1..Len(rest) : rest[j].name = last THEN rest
             ELSE Append(rest, [name |-> last, val |-> Str("")])

\* Interpreter._handle_func_def
_handle_func_def(command, path, i, ctx) ==
    IF ~Has(command, "func_name") \/ ~Has(command, "arguments")
       \/ ~Has(command, "commands")
    THEN Fail(KeyError, ctx)
    ELSE LET entry == [name |-> command.func_name,
                       arguments |-> ArgumentDict(command.arguments),
                       commands |-> Append(path, Step(i, "commands"))]
             at == FuncIndex(ctx.fuctions, command.func_name)
         IN  Res([ctx EXCEPT !.fuctions =
                     IF at = 0 THEN Append(@, entry) ELSE [@ EXCEPT ![at] = entry]],
                 <<>>, <<>>)

\* lines 122-126: each argument is evaluated and stored on the function's
\* entry before the next argument is evaluated
RECURSIVE BindArguments(_, _, _, _)
BindArguments(at, arguments, j, ctx) ==
    IF j > Len(arguments) THEN Ok(None, ctx)
    ELSE LET e == _evaluate(arguments[j], ctx)
         IN  IF e.exc # <<>> THEN e
             ELSE BindArguments(at, arguments, j + 1,
                    [e.ctx EXCEPT !.fuctions[at].arguments[j].val = e.val])

\* Interpreter._handle_func_call, up to the delegation to the body
_handle_func_call(command, path, i, ctx) ==
    IF ~Has(command, "func_name") \/ ~Has(command, "arguments")
    THEN Fail(KeyError, ctx)
    ELSE
    LET func_name == command.func_name
        at == FuncIndex(ctx.fuctions, func_name)
        func_args_num == Len(ctx.fuctions[at].arguments)
        input_args_num == Len(command.arguments)
        bound == BindArguments(at, command.arguments, 1, ctx)
    IN  IF at = 0 THEN Fail(From("UndefinedFunction", func_name, KeyError), ctx)
        ELSE IF func_args_num # input_args_num
             THEN Fail(Exc("InvalidFunctionArguments", func_name, func_args_num,
                           input_args_num, <<>>), ctx)
        ELSE IF bound.exc # <<>> THEN Fail(bound.exc[1], bound.ctx)
        ELSE Res(bound.ctx, <<>>,
                 <<FuncCallFrame(func_name),
                   InterpretFrame(bound.ctx.fuctions[at].commands)>>)

\* a _handle_make that yields its node after the assignment
_handle_make_yielding(command, path, i, ctx) ==
    IF ~Has(command, "var_name") \/ ~Has(command, "value") THEN Fail(KeyError, ctx)
    ELSE LET e == _evaluate(command.value, ctx)
         IN  IF e.exc # <<>> THEN Fail(e.exc[1], e.ctx)
             ELSE Res([e.ctx EXCEPT !.variables =
                         [v \in DOMAIN @ \cup {command.var_name} |->
                             IF v = command.var_name THEN e.val ELSE @[v]]],
                      <<command>>, <<>>)

\* Interpreter._handle_make
_handle_make(command, path, i, ctx) ==
    IF ~Has(command, "var_name") \/ ~Has(command, "value") THEN Fail(KeyError, ctx)
    ELSE LET e == _evaluate(command.value, ctx)
         IN  IF e.exc # <<>> THEN Fail(e.exc[1], e.ctx)
             ELSE Res([e.ctx EXCEPT !.variables =
                         [v \in DOMAIN @ \cup {command.var_name} |->
                             IF v = command.var_name THEN e.val ELSE @[v]]],
                      <<>>, <<>>)

\* lines 151-152: value[i] = self._evaluate(value[i]) over range(len(value)),
\* written into the literal of the tree element by element
RECURSIVE EvaluateLiteral(_, _, _, _, _)
EvaluateLiteral(path, i, j, n, ctx) ==
    LET xs == CmdsAt(ctx.tree, path)[i].list.xs
    IN  IF j > n THEN Ok(None, ctx)
        ELSE IF j > Len(xs) THEN Err(Builtin("IndexError"), ctx)
        ELSE LET e == _evaluate(xs[j], ctx)
                 now == CmdsAt(e.ctx.tree, path)[i].list.xs
             IN  IF e.exc # <<>> THEN e
                 ELSE IF j > Len(now) THEN Err(Builtin("IndexError"), e.ctx)
                 ELSE EvaluateLiteral(path, i, j + 1, n,
                        [e.ctx EXCEPT !.tree =
                            SetField(@, path, i, "list",
                                     PyList([now EXCEPT ![j] = e.val]))])

SetList(ctx, list_name, ref) ==
    [ctx EXCEPT !.lists = [l \in DOMAIN @ \cup {list_name} |->
                              IF l = list_name THEN ref ELSE @[l]]]

\* Interpreter._handle_list_make.  The literal is the sentinel or a list in
\* every tree of the catalogue.
_handle_list_make(command, path, i, ctx) ==
    IF ~Has(command, "list_name") \/ ~Has(command, "list") THEN Fail(KeyError, ctx)
    ELSE LET value == command.list
         IN  IF value.k = "str" /\ value.s = "empty"
             THEN Res(SetList(ctx, command.list_name, OwnRef(<<>>)), <<>>, <<>>)
             ELSE IF value.k # "list" THEN Fail(Builtin("TypeError"), ctx)
             ELSE LET e == EvaluateLiteral(path, i, 1, Len(value.xs), ctx)
                  IN  IF e.exc # <<>> THEN Fail(e.exc[1], e.ctx)
                      ELSE Res(SetList(e.ctx, command.list_name, LitRef(path, i)),
                               <<>>, <<>>)

\* _handle_repeat looping over range(int(value) + 1)
_handle_repeat_inclusive(command, path, i, ctx) ==
    IF ~Has(command, "value") THEN Fail(KeyError, ctx)
    ELSE LET e == _evaluate(command.value, ctx)
             n == ToInt(e.val)
             body == Append(path, Step(i, "commands"))
         IN  IF e.exc # <<>> THEN Fail(e.exc[1], e.ctx)
             ELSE IF n.exc # <<>> THEN Fail(n.exc[1], e.ctx)
             ELSE IF n.n + 1 <= 0 THEN Res(e.ctx, <<>>, <<>>)
             ELSE IF ~Has(command, "commands") THEN Fail(KeyError, e.ctx)
             ELSE Res(e.ctx, <<>>, <<RepeatFrame(body, n.n + 1), InterpretFrame(body)>>)

\* Interpreter._handle_repeat: the count is evaluated before the loop
_handle_repeat(command, path, i, ctx) ==
    IF ~Has(command, "value") THEN Fail(KeyError, ctx)
    ELSE LET e == _evaluate(command.value, ctx)
             n == ToInt(e.val)
             body == Append(path, Step(i, "commands"))
         IN  IF e.exc # <<>> THEN Fail(e.exc[1], e.ctx)
             ELSE IF n.exc # <<>> THEN Fail(n.exc[1], e.ctx)
             ELSE IF n.n <= 0 THEN Res(e.ctx, <<>>, <<>>)
             ELSE IF ~Has(command, "commands") THEN Fail(KeyError, e.ctx)
             ELSE Res(e.ctx, <<>>, <<RepeatFrame(body, n.n), InterpretFrame(body)>>)

\* Interpreter._handle_if
_handle_if(command, path, i, ctx) ==
    IF ~Has(command, "condition") THEN Fail(KeyError, ctx)
    ELSE LET e == _evaluate(command.condition, ctx)
             branch == IF Truthy(e.val) THEN "commands" ELSE "else_commands"
         IN  IF e.exc # <<>> THEN Fail(e.exc[1], e.ctx)
             ELSE IF ~Has(command, branch) THEN Fail(KeyError, e.ctx)
             ELSE Res(e.ctx, <<>>, <<InterpretFrame(Append(path, Step(i, branch)))>>)

\* _handle_movement, _handle_setpensize and _handle_print have one body:
\* yield {"name": command["name"], "value": self._evaluate(command["value"])}
YieldValue(command, ctx) ==
    IF ~Has(command, "value") THEN Fail(KeyError, ctx)
    ELSE LET e == _evaluate(command.value, ctx)
         IN  IF e.exc # <<>> THEN Fail(e.exc[1], e.ctx)
             ELSE Res(e.ctx, <<[name |-> command.name, value |-> e.val]>>, <<>>)

_handle_movement(command, path, i, ctx) == YieldValue(command, ctx)
_handle_setpensize(command, path, i, ctx) == YieldValue(command, ctx)
_handle_print(command, path, i, ctx) == YieldValue(command, ctx)

\* lines 74-75: the command object itself is yielded
YieldCommand(command, path, i, ctx) == Res(ctx, <<command>>, <<>>)

\* lines 76-79: x and y are evaluated into the command object, which is yielded
SetposCase(command, path, i, ctx) ==
    IF ~Has(command, "x") THEN Fail(KeyError, ctx)
    ELSE LET x == _evaluate(command.x, ctx)
             cx == [x.ctx EXCEPT !.tree = SetField(@, path, i, "x", x.val)]
         IN  IF x.exc # <<>> THEN Fail(x.exc[1], x.ctx)
             ELSE IF ~Has(command, "y") THEN Fail(KeyError, cx)
             ELSE LET y == _evaluate(command.y, cx)
                      cy == [y.ctx EXCEPT !.tree = SetField(@, path, i, "y", y.val)]
                  IN  IF y.exc # <<>> THEN Fail(y.exc[1], y.ctx)
                      ELSE Res(cy, <<CmdsAt(cy.tree, path)[i]>>, <<>>)

\* InterpreterInvalidColorError(color=..., supported_colors=self._colors)
InvalidColor(color, supported_colors) ==
    [type |-> "InvalidColor", name |-> color, expected |-> 0, received |-> 0,
     cause |-> <<>>, supported_colors |-> supported_colors]

\* a palette that also holds purple
_colors_wider == <<"white", "black", "red", "green", "blue", "cyan", "purple">>

_colors == <<"white", "black", "red", "green", "blue", "cyan">>

\* Interpreter._handle_setpencolor
_handle_setpencolor(command, path, i, ctx) ==
    IF ~Has(command, "color") THEN Fail(KeyError, ctx)
    ELSE IF \A c \in 1..Len(_colors) : _colors[c] # command.color
         THEN Fail(InvalidColor(command.color, _colors), ctx)
    ELSE Res(ctx, <<command>>, <<>>)

\* the command form of a list operation: the value _handle_list returns is dropped
ListCommand(command, path, i, ctx) ==
    LET e == _handle_list(command, ctx)
    IN  IF e.exc # <<>> THEN Fail(e.exc[1], e.ctx) ELSE Res(e.ctx, <<>>, <<>>)

(***************************************************************************)
(* The catalogue of command trees.  Trees are written as the parser's      *)
(* output is consumed by _interpret: a dict with the key "tokens" holding  *)
(* commands tagged by "name".  prog.n ranges over 0..MaxArg and prog.fn    *)
(* over the list operations, for the programs that take them.              *)
(***************************************************************************)
forward(e) == [name |-> "forward", value |-> e]
print(e) == [name |-> "print", value |-> e]
setpensize(e) == [name |-> "setpensize", value |-> e]
setpencolor(c) == [name |-> "setpencolor", color |-> c]
setpos(x, y) == [name |-> "setpos", x |-> x, y |-> y]
turtle(name) == [name |-> name]
make(var_name, e) == [name |-> "make", var_name |-> var_name, value |-> e]
to(func_name, params, body) ==
    [name |-> "func_def", func_name |-> func_name, arguments |-> params,
     commands |-> body]
call(func_name, args) ==
    [name |-> "func_call", func_name |-> func_name, arguments |-> args]
repeat(e, body) == [name |-> "repeat", value |-> e, commands |-> body]
ifelse(c, body, else_body) ==
    [name |-> "if", condition |-> c, commands |-> body, else_commands |-> else_body]
list_make(list_name, xs) ==
    [name |-> "list_make", list_name |-> list_name, list |-> PyList(xs)]
list_make_empty(list_name) ==
    [name |-> "list_make", list_name |-> list_name, list |-> Str("empty")]
list(list_name, function, index, value) ==
    [name |-> "list", list_name |-> list_name, function |-> function,
     index |-> index, value |-> value]

F(n) == Float(n)
ListOps == {"empty", "len", "get", "set", "insert", "remove", "remove_value"}

\* to f :n  if :n > 0 [ f :n - 1  forward :n ]  end  f N
Recursion(n) ==
    <<to("f", <<"n">>,
         <<ifelse(Bin(">", Var("n"), F(0)),
                  <<call("f", <<Bin("-", Var("n"), F(1))>>), forward(Var("n"))>>,
                  <<>>)>>),
      call("f", <<F(n)>>)>>

\* f and g both have a parameter a; f calls g with :a + 1
DefF == to("f", <<"a">>, <<call("g", <<Bin("+", Var("a"), F(1))>>)>>)
DefG == to("g", <<"a">>, <<forward(Var("a"))>>)
ShadowFG(n) == <<DefF, DefG, call("f", <<F(n)>>)>>
ShadowGF(n) == <<DefG, DefF, call("f", <<F(n)>>)>>

\* to f :a :b :d  if :d > 0 [ f :b :a :d - 1 ] [ forward :a  forward :b ]  end
\* f N N+1 1
Swap(n) ==
    <<to("f", <<"a", "b", "d">>,
         <<ifelse(Bin(">", Var("d"), F(0)),
                  <<call("f", <<Var("b"), Var("a"), Bin("-", Var("d"), F(1))>>)>>,
                  <<forward(Var("a")), forward(Var("b"))>>)>>),
      call("f", <<F(n), F(n + 1), F(1)>>)>>

\* a parameter name read at top level, before and after a call
ParamBefore == <<to("f", <<"p">>, <<forward(Var("p"))>>), forward(Var("p"))>>
ParamAfter(n) ==
    <<to("f", <<"p">>, <<forward(Var("p"))>>), call("f", <<F(n)>>),
      forward(Var("p"))>>
Unbound == <<forward(F(1)), forward(Var("q"))>>

\* list_make "L [1 2 3]  insert L 0 9  print len L
ListProgram ==
    <<list_make("L", <<F(1), F(2), F(3)>>), list("L", "insert", F(0), F(9)),
      print(ListQuery("L", "len", F(0)))>>
\* list_make "L [...]  setpos (len L) :n
SetposProgram(n) ==
    <<make("n", F(n)), list_make("L", <<F(1), F(2)>>),
      setpos(ListQuery("L", "len", F(0)), Var("n")), turtle("penup")>>

\* a list operation on a name that was never made, as a command and as an
\* expression, after one command that yields and one that assigns
UnboundListCommand(fn) ==
    <<forward(F(1)), make("x", F(1)), list("L", fn, F(0), F(7)), forward(F(2))>>
UnboundListQuery(fn) ==
    <<forward(F(1)), make("x", F(1)),
      print(Dict(list("L", fn, F(0), F(7)))), forward(F(2))>>

\* list_make "L [10]  <fn> L n-1 <value>  print len L: an operation at the
\* index n - 1 of a list of one element; remove_value looks for 10 - n
BoundsList == <<F(10)>>
BoundsValue(fn, n) == IF fn = "remove_value" THEN F(10 - n) ELSE F(7)
Bounds(fn, n) ==
    <<list_make("L", BoundsList),
      IF fn \in {"get", "empty", "len"}
      THEN print(Dict(list("L", fn, F(n - 1), BoundsValue(fn, n))))
      ELSE list("L", fn, F(n - 1), BoundsValue(fn, n)),
      print(ListQuery("L", "len", F(0)))>>

\* make "x 0  repeat N [ make "x :x + 1  forward :x ]
RepeatCount(n) ==
    <<make("x", F(0)),
      repeat(F(n), <<make("x", Bin("+", Var("x"), F(1))), forward(Var("x"))>>)>>
\* make "c N  repeat :c [ make "c :c + 1  forward 10 ]  forward :c
RepeatVar(n) ==
    <<make("c", F(n)),
      repeat(Var("c"), <<make("c", Bin("+", Var("c"), F(1))), forward(F(10))>>),
      forward(Var("c"))>>
\* list_make "L empty  repeat N [ insert L 0 1  print len L ]
RepeatList(n) ==
    <<list_make_empty("L"),
      repeat(F(n), <<list("L", "insert", F(0), F(1)),
                     print(ListQuery("L", "len", F(0)))>>)>>
\* repeat N > 0 [ forward 10 ]  repeat 1 - N [ forward 20 ]
RepeatCoerced(n) ==
    <<repeat(Bin(">", F(n), F(0)), <<forward(F(10))>>),
      repeat(Bin("-", F(1), F(n)), <<forward(F(20))>>)>>

\* forward 1  g n
Undefined(n) == <<forward(F(1)), call("g", <<F(n)>>), forward(F(2))>>
\* to f :a :b ... end  f with n arguments
Arguments(n) ==
    <<to("f", <<"a", "b">>, <<forward(F(9))>>),
      call("f", [j \in 1..n |-> F(j)]), forward(F(2))>>
\* to f :a :a ... end  f with n arguments
SameName(n) ==
    <<to("f", <<"a", "a">>, <<forward(F(9))>>),
      call("f", [j \in 1..n |-> F(j)]), forward(F(2))>>

\* to h  forward :q  end   to f :a  forward :a  <failing commands>  end
\* f 1  forward 2        (for "argument": f :q, with nothing failing in the body)
BodyErrors == {"unbound", "color", "malformed", "unrecognized", "undefined",
               "arity", "list", "nested", "argument"}
Failing(kind) ==
    CASE kind = "unbound" -> <<forward(Var("q"))>>
      [] kind = "color" -> <<setpencolor("purple")>>
      [] kind = "malformed" -> <<[name |-> "forward"]>>
      [] kind = "unrecognized" -> <<turtle("jump")>>
      [] kind = "undefined" -> <<call("g", <<>>)>>
      [] kind = "arity" -> <<call("h", <<F(1)>>)>>
      [] kind = "list" -> <<list_make("L", <<F(1)>>), list("L", "remove_value", F(0), F(5))>>
      [] kind = "nested" -> <<call("h", <<>>)>>
      [] OTHER -> <<>>
BodyError(kind) ==
    <<to("h", <<>>, <<forward(Var("q"))>>),
      to("f", <<"a">>, <<forward(Var("a"))>> \o Failing(kind) \o <<forward(F(3))>>),
      call("f", <<IF kind = "argument" THEN Var("q") ELSE F(1)>>),
      forward(F(2))>>

\* make "x N  forward :x  list_make "L [1]  insert L 0 2  print len L
\* to f :a forward :a end  make "x :x + 1  forward :q  forward 9
Partial(n) ==
    <<make("x", F(n)), forward(Var("x")), list_make("L", <<F(1)>>),
      list("L", "insert", F(0), F(2)), print(ListQuery("L", "len", F(0))),
      to("f", <<"a">>, <<forward(Var("a"))>>),
      make("x", Bin("+", Var("x"), F(1))), forward(Var("q")), forward(F(9))>>

\* list_make "L [1]  forward 1  <a node without one of its fields, or with
\* a tag, list function or operator that no case matches>  forward 2
MissingField == {"no_name", "no_value", "no_color", "no_x", "no_var_name",
                 "no_list", "no_func_name", "no_condition", "no_op", "no_left",
                 "no_function", "no_list_name", "no_index", "no_commands",
                 "no_else_commands"}
NotRecognized == {"bad_name", "bad_function", "bad_op"}
Node(kind) ==
    CASE kind = "no_name" -> [value |-> F(1)]
      [] kind = "no_value" -> [name |-> "forward"]
      [] kind = "no_color" -> [name |-> "setpencolor"]
      [] kind = "no_x" -> [name |-> "setpos", y |-> F(1)]
      [] kind = "no_var_name" -> [name |-> "make", value |-> F(1)]
      [] kind = "no_list" -> [name |-> "list_make", list_name |-> "M"]
      [] kind = "no_func_name" -> [name |-> "func_call", arguments |-> <<>>]
      [] kind = "no_condition" ->
           [name |-> "if", commands |-> <<>>, else_commands |-> <<>>]
      [] kind = "no_op" -> forward(Dict([left |-> F(1), right |-> F(1)]))
      [] kind = "no_left" -> forward(Dict([op |-> "+", right |-> F(1)]))
      [] kind = "no_function" ->
           [name |-> "list", list_name |-> "L", index |-> F(0), value |-> F(7)]
      [] kind = "no_list_name" ->
           [name |-> "list", function |-> "len", index |-> F(0), value |-> F(7)]
      [] kind = "no_index" ->
           [name |-> "list", list_name |-> "L", function |-> "get", value |-> F(7)]
      [] kind = "no_commands" -> [name |-> "repeat", value |-> F(0)]
      [] kind = "no_else_commands" ->
           [name |-> "if", condition |-> Var("true"), commands |-> <<>>]
      [] kind = "bad_name" -> turtle("jump")
      [] kind = "bad_function" -> list("L", "sort", F(0), F(7))
      [] kind = "bad_op" -> forward(Bin("%", F(1), F(1)))
Malformed(kind) ==
    <<list_make("L", <<F(1)>>), forward(F(1)), Node(kind), forward(F(2))>>

\* setpencolor with each color of the palette, then one outside it
Palette ==
    <<setpencolor("white"), setpencolor("black"), setpencolor("red"),
      setpencolor("green"), setpencolor("blue"), setpencolor("cyan"),
      setpencolor("purple"), forward(F(1))>>

\* list_make "L [1 2]  insert L i v  print get L i  print len L
\* remove_value L v  print len L  print get L 0  print get L 1
\* with v a number the list does not hold, or its first, or its second
RoundTrips == {"fresh", "first", "second"}
RoundTripList == <<F(1), F(2)>>
RoundTripValue(kind) ==
    CASE kind = "first" -> F(1) [] kind = "second" -> F(2) [] OTHER -> F(9)
RoundTrip(i, kind) ==
    <<list_make("L", RoundTripList),
      list("L", "insert", F(i), RoundTripValue(kind)),
      print(ListQuery("L", "get", F(i))),
      print(ListQuery("L", "len", F(0))),
      list("L", "remove_value", F(0), RoundTripValue(kind)),
      print(ListQuery("L", "len", F(0))),
      print(ListQuery("L", "get", F(0))),
      print(ListQuery("L", "get", F(1)))>>

\* one list_make node executed twice, by a repeat or by two calls:
\*   make "x 1  repeat 2 [ list_make "L [:x 5]  print get L 0  insert L 0 9
\*                         print len L  make "x :x + 1 ]
\*   to f  list_make "L [1 2]  insert L 0 9  print len L  end  f  f
\*   repeat 2 [ list_make "L empty  insert L 0 1  print len L ]
ListResets == {"repeat", "function", "sentinel"}
ListReset(kind) ==
    CASE kind = "repeat" ->
           <<make("x", F(1)),
             repeat(F(2), <<list_make("L", <<Var("x"), F(5)>>),
                            print(ListQuery("L", "get", F(0))),
                            list("L", "insert", F(0), F(9)),
                            print(ListQuery("L", "len", F(0))),
                            make("x", Bin("+", Var("x"), F(1)))>>)>>
      [] kind = "function" ->
           <<to("f", <<>>, <<list_make("L", <<F(1), F(2)>>),
                             list("L", "insert", F(0), F(9)),
                             print(ListQuery("L", "len", F(0)))>>),
             call("f", <<>>), call("f", <<>>)>>
      [] OTHER ->
           <<repeat(F(2), <<list_make_empty("L"), list("L", "insert", F(0), F(1)),
                            print(ListQuery("L", "len", F(0)))>>)>>

\* one setpos node executed twice:
\*   make "x 1  repeat 2 [ setpos :x 0  make "x :x + 1 ]
\*   to f :a  setpos :a :a  end  f 1  f 2
\*   list_make "L [1 2]  repeat 2 [ setpos (len L) 0 ]
SetposAgains == {"repeat", "function", "length"}
SetposAgain(kind) ==
    CASE kind = "repeat" ->
           <<make("x", F(1)),
             repeat(F(2), <<setpos(Var("x"), F(0)),
                            make("x", Bin("+", Var("x"), F(1)))>>)>>
      [] kind = "function" ->
           <<to("f", <<"a">>, <<setpos(Var("a"), Var("a"))>>),
             call("f", <<F(1)>>), call("f", <<F(2)>>)>>
      [] OTHER ->
           <<list_make("L", <<F(1), F(2)>>),
             repeat(F(2), <<setpos(ListQuery("L", "len", F(0)), F(0))>>)>>

Misc ==
    <<turtle("penup"), setpencolor("red"), setpensize(F(2)), print(F(1)),
      turtle("hideturtle"), turtle("showturtle"), turtle("pendown"),
      setpos(F(1), F(2)), setpencolor("purple")>>
Bogus == <<forward(F(1)), turtle("jump")>>

Tokens(commands) == [tokens |-> commands]
\* the tree src/tests/test_parser.py expects of parse_logo("forward 100")
forward_response == [commands |-> <<[command |-> "forward", value |-> PyInt(100)]>>]
\* the same command under the top-level key the Interpreter reads
ForwardTokens == Tokens(<<[command |-> "forward", value |-> PyInt(100)]>>)

\* The inputs: a program of the catalogue with its parameters.  n is 0 and
\* fn is "" for a program that does not take them.
Inputs ==
    LET Of(ids, ns, fns) ==
            {[id |-> id, n |-> n, fn |-> fn] : id \in ids, n \in ns, fn \in fns}
    IN  Of({"Recursion", "ShadowFG", "ShadowGF", "Swap", "ParamAfter",
            "SetposProgram", "RepeatCount", "RepeatVar", "RepeatList",
            "RepeatCoerced", "Undefined", "Arguments", "SameName", "Partial"},
           0..MaxArg, {""})
        \cup Of({"ParamBefore", "Unbound", "ListProgram", "Misc", "Bogus",
                 "Palette", "forward_response", "ForwardTokens"}, {0}, {""})
        \cup Of({"UnboundListCommand", "UnboundListQuery"}, {0}, ListOps)
        \cup Of({"Bounds"}, 0..MaxArg, ListOps)
        \cup Of({"RoundTrip"}, 0..MaxArg, RoundTrips)
        \cup Of({"BodyError"}, {0}, BodyErrors)
        \cup Of({"Malformed"}, {0}, MissingField \cup NotRecognized)
        \cup Of({"ListReset"}, {0}, ListResets)
        \cup Of({"SetposAgain"}, {0}, SetposAgains)

TreeOf(p) ==
    CASE p.id = "Recursion" -> Tokens(Recursion(p.n))
      [] p.id = "ShadowFG" -> Tokens(ShadowFG(p.n))
      [] p.id = "ShadowGF" -> Tokens(ShadowGF(p.n))
      [] p.id = "Swap" -> Tokens(Swap(p.n))
      [] p.id = "ParamBefore" -> Tokens(ParamBefore)
      [] p.id = "ParamAfter" -> Tokens(ParamAfter(p.n))
      [] p.id = "Unbound" -> Tokens(Unbound)
      [] p.id = "ListProgram" -> Tokens(ListProgram)
      [] p.id = "SetposProgram" -> Tokens(SetposProgram(p.n))
      [] p.id = "UnboundListCommand" -> Tokens(UnboundListCommand(p.fn))
      [] p.id = "UnboundListQuery" -> Tokens(UnboundListQuery(p.fn))
      [] p.id = "Bounds" -> Tokens(Bounds(p.fn, p.n))
      [] p.id = "RepeatCount" -> Tokens(RepeatCount(p.n))
      [] p.id = "RepeatVar" -> Tokens(RepeatVar(p.n))
      [] p.id = "RepeatList" -> Tokens(RepeatList(p.n))
      [] p.id = "RepeatCoerced" -> Tokens(RepeatCoerced(p.n))
      [] p.id = "Undefined" -> Tokens(Undefined(p.n))
      [] p.id = "Arguments" -> Tokens(Arguments(p.n))
      [] p.id = "SameName" -> Tokens(SameName(p.n))
      [] p.id = "Partial" -> Tokens(Partial(p.n))
      [] p.id = "RoundTrip" -> Tokens(RoundTrip(p.n, p.fn))
      [] p.id = "ListReset" -> Tokens(ListReset(p.fn))
      [] p.id = "SetposAgain" -> Tokens(SetposAgain(p.fn))
      [] p.id = "Malformed" -> Tokens(Malformed(p.fn))
      [] p.id = "BodyError" -> Tokens(BodyError(p.fn))
      [] p.id = "Misc" -> Tokens(Misc)
      [] p.id = "Palette" -> Tokens(Palette)
      [] p.id = "Bogus" -> Tokens(Bogus)
      [] p.id = "forward_response" -> forward_response
      [] p.id = "ForwardTokens" -> ForwardTokens

(***************************************************************************)
(* The state machine.                                                      *)
(***************************************************************************)
EmptyDict == [key \in {} |-> None]

\* events.py before any event: workers = {}, no _Worker made
NoWorkers ==
    /\ connected = TRUE
    /\ workers = 0
    /\ _switch = [w \in 1..MaxWorkers |-> TRUE]
    /\ logo_runner = [w \in 1..MaxWorkers |-> 0]
    /\ start_pc = [w \in 1..MaxWorkers |-> "none"]
    /\ on_run_pc = [w \in 1..MaxWorkers |-> "none"]
    /\ stopping = 0
    /\ stops = 0
    /\ emitted = [w \in 1..MaxWorkers |-> <<>>]

Init ==
    /\ NoWorkers
    /\ prog \in Inputs
    /\ tree = TreeOf(prog)
    /\ _variables = EmptyDict
    /\ _fuctions = <<>>
    /\ _lists = EmptyDict
    /\ stack = <<>>
    /\ yielded = <<>>
    /\ raised = <<>>
    /\ phase = "new"
    /\ runs = 0
    /\ iters = 0
    /\ stopped = FALSE
    /\ earlier = <<>>

\* Interpreter(tree): __init__, lines 24-35
Construct ==
    /\ phase # "running"
    /\ runs < MaxRuns
    /\ runs' = runs + 1
    /\ iters' = 0
    /\ stopped' = FALSE
    /\ earlier' = <<>>
    /\ _variables' = EmptyDict
    /\ _fuctions' = <<>>
    /\ _lists' = EmptyDict
    /\ stack' = <<>>
    /\ yielded' = <<>>
    /\ IF "tokens" \in DOMAIN tree
       THEN raised' = <<>> /\ phase' = "ready"
       ELSE raised' = <<InvalidTree>> /\ phase' = "failed"
    /\ UNCHANGED <<prog, tree>>
    /\ UNCHANGED workerVars

\* iter(interpreter): __iter__, lines 37-43, a new generator over _commands
Iter ==
    /\ phase \in {"ready", "suspended", "finished"}
    /\ iters < MaxIters
    /\ iters' = iters + 1
    /\ stopped' = FALSE
    /\ earlier' = yielded
    /\ stack' = <<InterpretFrame(<<>>)>>
    /\ yielded' = <<>>
    /\ raised' = <<>>
    /\ phase' = "suspended"
    /\ UNCHANGED <<prog, tree, _variables, _fuctions, _lists, runs>>
    /\ UNCHANGED workerVars

\* next(generator): the consumer pulls; the generator runs to its next yield
Pull ==
    /\ phase = "suspended"
    /\ phase' = "running"
    /\ UNCHANGED <<prog, tree, _variables, _fuctions, _lists, stack, yielded,
                   raised, runs, iters, stopped, earlier>>
    /\ UNCHANGED workerVars

\* next(generator) once the generator has returned or raised: StopIteration
PullFinished ==
    /\ phase = "finished"
    /\ stopped' = TRUE
    /\ UNCHANGED <<prog, tree, _variables, _fuctions, _lists, stack, yielded,
                   raised, phase, runs, iters, earlier>>
    /\ UNCHANGED workerVars

Top == stack[Len(stack)]
Context == Ctx(_variables, _fuctions, _lists, tree)
AtCommand ==
    /\ phase = "running"
    /\ stack # <<>>
    /\ Top.k = "interpret"
    /\ Top.pc <= Len(CmdsAt(tree, Top.cmds))
Command == CmdsAt(tree, Top.cmds)[Top.pc]
Case(names) == AtCommand /\ Has(Command, "name") /\ Command.name \in names

\* an _interpret that undoes the iteration's output when a command fails
Apply_rollback(res) ==
    /\ _variables' = res.ctx.variables
    /\ _fuctions' = res.ctx.fuctions
    /\ _lists' = res.ctx.lists
    /\ tree' = res.ctx.tree
    /\ IF res.exc # <<>>
       THEN /\ raised' = <<Unwind(stack, res.exc[1])>>
            /\ stack' = <<>>
            /\ yielded' = <<>>
            /\ phase' = "finished"
       ELSE /\ raised' = raised
            /\ stack' = [stack EXCEPT ![Len(stack)].pc = @ + 1] \o res.push
            /\ yielded' = yielded \o res.out
            /\ phase' = IF res.out # <<>> THEN "suspended" ELSE "running"
    /\ UNCHANGED <<prog, runs, iters, stopped, earlier>>
    /\ UNCHANGED workerVars

\* What one pass of the for loop of _interpret leaves behind.
Apply(res) ==
    /\ _variables' = res.ctx.variables
    /\ _fuctions' = res.ctx.fuctions
    /\ _lists' = res.ctx.lists
    /\ tree' = res.ctx.tree
    /\ IF res.exc # <<>>
       THEN /\ raised' = <<Unwind(stack, res.exc[1])>>
            /\ stack' = <<>>
            /\ yielded' = yielded
            /\ phase' = "finished"
       ELSE /\ raised' = raised
            /\ stack' = [stack EXCEPT ![Len(stack)].pc = @ + 1] \o res.push
            /\ yielded' = yielded \o res.out
            /\ phase' = IF res.out # <<>> THEN "suspended" ELSE "running"
    /\ UNCHANGED <<prog, runs, iters, stopped, earlier>>
    /\ UNCHANGED workerVars

Movements == {"forward", "backward", "left", "right"}
Turtles == {"hideturtle", "showturtle", "penup", "pendown"}
Cases == {"func_def", "func_call", "make", "list_make", "list", "repeat", "if",
          "setpos", "setpencolor", "setpensize", "print"} \cup Movements \cup Turtles

FuncDef == Case({"func_def"}) /\ Apply(_handle_func_def(Command, Top.cmds, Top.pc, Context))
FuncCall == Case({"func_call"}) /\ Apply(_handle_func_call(Command, Top.cmds, Top.pc, Context))
Make == Case({"make"}) /\ Apply(_handle_make(Command, Top.cmds, Top.pc, Context))
ListMake == Case({"list_make"}) /\ Apply(_handle_list_make(Command, Top.cmds, Top.pc, Context))
List == Case({"list"}) /\ Apply(ListCommand(Command, Top.cmds, Top.pc, Context))
Repeat == Case({"repeat"}) /\ Apply(_handle_repeat(Command, Top.cmds, Top.pc, Context))
If == Case({"if"}) /\ Apply(_handle_if(Command, Top.cmds, Top.pc, Context))
Movement == Case(Movements) /\ Apply(_handle_movement(Command, Top.cmds, Top.pc, Context))
Turtle == Case(Turtles) /\ Apply(YieldCommand(Command, Top.cmds, Top.pc, Context))
Setpos == Case({"setpos"}) /\ Apply(SetposCase(Command, Top.cmds, Top.pc, Context))
Setpencolor == Case({"setpencolor"}) /\ Apply(_handle_setpencolor(Command, Top.cmds, Top.pc, Context))
Setpensize == Case({"setpensize"}) /\ Apply(_handle_setpensize(Command, Top.cmds, Top.pc, Context))
PrintCommand == Case({"print"}) /\ Apply(_handle_print(Command, Top.cmds, Top.pc, Context))

\* case _: raise InterpreterInvalidCommandError
Unrecognized ==
    /\ AtCommand /\ Has(Command, "name") /\ Command.name \notin Cases
    /\ Apply(Fail(InvalidCommand, Context))

\* name = command["name"] on a command without that key
Untagged ==
    /\ AtCommand /\ ~Has(Command, "name")
    /\ Apply(Fail(KeyError, Context))

\* The for loop of an _interpret is exhausted: the generator returns into the
\* handler that delegated to it, which loops (_handle_repeat) or returns too.
Return ==
    /\ phase = "running"
    /\ stack # <<>>
    /\ Top.k = "interpret"
    /\ Top.pc > Len(CmdsAt(tree, Top.cmds))
    /\ LET below == SubSeq(stack, 1, Len(stack) - 1)
           parent == below[Len(below)]
           rest == SubSeq(below, 1, Len(below) - 1)
       IN  IF below = <<>>
           THEN stack' = <<>> /\ phase' = "finished"
           ELSE /\ phase' = "running"
                /\ stack' =
                     CASE parent.k = "func_call" -> rest
                       [] parent.k = "repeat" ->
                            IF parent.pc < parent.n
                            THEN Append(rest, [parent EXCEPT !.pc = @ + 1])
                                 \o <<InterpretFrame(parent.cmds)>>
                            ELSE rest
                       [] OTHER -> below
    /\ UNCHANGED <<prog, tree, _variables, _fuctions, _lists, yielded, raised,
                   runs, iters, stopped, earlier>>
    /\ UNCHANGED workerVars

Next ==
    \/ Construct \/ Iter \/ Pull \/ PullFinished \/ Return
    \/ FuncDef \/ FuncCall \/ Make \/ ListMake \/ List \/ Repeat \/ If
    \/ Movement \/ Turtle \/ Setpos \/ Setpencolor \/ Setpensize \/ PrintCommand
    \/ Unrecognized \/ Untagged

Spec == Init /\ [][Next]_vars

(***************************************************************************)
(* events.py: the handlers of one client's socket events and the workers   *)
(* they start.  Handlers and workers are green threads: one runs until its *)
(* next eventlet.sleep, so an action is the code between two sleeps.  What *)
(* run(code) gives a worker is a generator that, each time it is pulled,   *)
(* yields a command, returns or raises, as the client's program has it.    *)
(***************************************************************************)
\* socketio.emit(event, data, to=client_id) from the run of worker w
emit(event, data, w) ==
    emitted' = [emitted EXCEPT ![w] = Append(@, [event |-> event, data |-> data])]

is_running(w) == _switch[w]

\* on_run, lines 120-129: the worker is made, registered and spawned, and
\* the handler finds it running and sleeps
on_run ==
    /\ connected
    /\ \E w \in 1..MaxWorkers :
          /\ on_run_pc[w] = "none"
          /\ \A v \in 1..(w - 1) : on_run_pc[v] # "none"
          /\ logo_runner' = [logo_runner EXCEPT ![w] = 0]
          /\ workers' = w
          /\ _switch' = [_switch EXCEPT ![w] = TRUE]
          /\ start_pc' = [start_pc EXCEPT ![w] = "spawned"]
          /\ on_run_pc' = [on_run_pc EXCEPT ![w] = "waiting"]
    /\ UNCHANGED <<connected, stopping, stops, emitted>>
    /\ UNCHANGED interpreterVars

\* on_run, lines 128-135: the handler wakes, finds its worker stopped and
\* deletes the client's entry of the registry
on_run_return(w) ==
    /\ on_run_pc[w] = "waiting"
    /\ ~is_running(w)
    /\ workers' = 0
    /\ on_run_pc' = [on_run_pc EXCEPT ![w] = "returned"]
    /\ UNCHANGED <<connected, _switch, logo_runner, start_pc, stopping, stops, emitted>>
    /\ UNCHANGED interpreterVars

\* _Worker.start, lines 39-40
start(w) ==
    /\ start_pc[w] = "spawned"
    /\ emit("task", "running", w)
    /\ start_pc' = [start_pc EXCEPT ![w] = "loop"]
    /\ UNCHANGED <<connected, workers, _switch, logo_runner, on_run_pc, stopping, stops>>
    /\ UNCHANGED interpreterVars

\* a loop that emits the command without looking at _switch
start_loop_unchecked(w) ==
    /\ start_pc[w] = "loop"
    /\ \/ /\ logo_runner[w] < MaxCommands
          /\ logo_runner' = [logo_runner EXCEPT ![w] = @ + 1]
          /\ emit("execute", "command", w)
          /\ UNCHANGED <<_switch, start_pc>>
       \/ /\ \E status \in {"done", "failed"} : emit("task", status, w)
          /\ _switch' = [_switch EXCEPT ![w] = FALSE]
          /\ start_pc' = [start_pc EXCEPT ![w] = "returned"]
          /\ UNCHANGED logo_runner
    /\ UNCHANGED <<connected, workers, on_run_pc, stopping, stops>>
    /\ UNCHANGED interpreterVars

\* _Worker.start, lines 42-76: one pass of the for loop.  The generator is
\* pulled first.  When it yields a command, the worker breaks if _switch
\* is off and else emits the command and sleeps; a break and the end of
\* the generator lead to self.stop() (line 76), which emits done; an
\* exception of the generator leads to the failed status (lines 49-74).
start_loop(w) ==
    /\ start_pc[w] = "loop"
    /\ \/ /\ logo_runner[w] < MaxCommands
          /\ logo_runner' = [logo_runner EXCEPT ![w] = @ + 1]
          /\ IF _switch[w]
             THEN /\ emit("execute", "command", w)
                  /\ UNCHANGED <<_switch, start_pc>>
             ELSE /\ emit("task", "done", w)
                  /\ _switch' = [_switch EXCEPT ![w] = FALSE]
                  /\ start_pc' = [start_pc EXCEPT ![w] = "returned"]
       \/ /\ \E status \in {"done", "failed"} : emit("task", status, w)
          /\ _switch' = [_switch EXCEPT ![w] = FALSE]
          /\ start_pc' = [start_pc EXCEPT ![w] = "returned"]
          /\ UNCHANGED logo_runner
    /\ UNCHANGED <<connected, workers, on_run_pc, stopping, stops>>
    /\ UNCHANGED interpreterVars

\* on_stop, lines 140-144, with _Worker.stop (lines 86-90) up to its sleep
on_stop ==
    /\ connected
    /\ stops < MaxStops
    /\ stops' = stops + 1
    /\ IF workers # 0
       THEN /\ _switch' = [_switch EXCEPT ![workers] = FALSE]
            /\ emit("task", "done", workers)
            /\ stopping' = stopping + 1
       ELSE UNCHANGED <<_switch, emitted, stopping>>
    /\ UNCHANGED <<connected, workers, logo_runner, start_pc, on_run_pc>>
    /\ UNCHANGED interpreterVars

\* on_stop, lines 145-146: after the sleep of stop(), del workers[request.sid]
on_stop_return ==
    /\ stopping > 0
    /\ stopping' = stopping - 1
    /\ workers' = 0
    /\ UNCHANGED <<connected, _switch, logo_runner, start_pc, on_run_pc, stops, emitted>>
    /\ UNCHANGED interpreterVars

\* on_disconnect, lines 108-109
on_disconnect ==
    /\ connected
    /\ connected' = FALSE
    /\ workers' = 0
    /\ UNCHANGED <<_switch, logo_runner, start_pc, on_run_pc, stopping, stops, emitted>>
    /\ UNCHANGED interpreterVars

\* no Interpreter is driven by hand while the workers run
WorkerInit ==
    /\ NoWorkers
    /\ prog = [id |-> "Unbound", n |-> 0, fn |-> ""]
    /\ tree = TreeOf(prog)
    /\ _variables = EmptyDict
    /\ _fuctions = <<>>
    /\ _lists = EmptyDict
    /\ stack = <<>>
    /\ yielded = <<>>
    /\ raised = <<>>
    /\ phase = "new"
    /\ runs = 0
    /\ iters = 0
    /\ stopped = FALSE
    /\ earlier = <<>>

WorkerNext ==
    \/ on_run
    \/ on_stop
    \/ on_stop_return
    \/ on_disconnect
    \/ \E w \in 1..MaxWorkers : on_run_return(w)
    \/ \E w \in 1..MaxWorkers : start(w)
    \/ \E w \in 1..MaxWorkers : start_loop(w)

WorkerSpec == WorkerInit /\ [][WorkerNext]_vars

(***************************************************************************)
(* Vocabulary of the properties.                                           *)
(***************************************************************************)
Finished == phase = "finished"
\* the first iteration of the first Interpreter: the tree is as parsed
Pristine == runs = 1 /\ iters = 1

IsPrefix(a, b) == Len(a) <= Len(b) /\ SubSeq(b, 1, Len(a)) = a

\* the error a FunctionExecutionError chain wraps
RECURSIVE RootCause(_)
RootCause(e) ==
    IF e.type = "FunctionExecutionError" /\ e.cause # <<>>
    THEN RootCause(e.cause[1])
    ELSE e

ValueCases == Movements \cup {"print", "setpensize"}
ActiveCalls == {stack[j].func_name : j \in {j \in 1..Len(stack) : stack[j].k = "func_call"}}
Parameters(func_name) ==
    LET at == FuncIndex(_fuctions, func_name)
    IN  IF at = 0 THEN {}
        ELSE {_fuctions[at].arguments[a].name : a \in 1..Len(_fuctions[at].arguments)}
ActiveParameters == UNION {Parameters(f) : f \in ActiveCalls}

(***************************************************************************)
(* C1: parameter bindings are scoped per invocation: after an inner call   *)
(* of f returns, the outer call of f still reads the values it was invoked *)
(* with.  For the body  if :n > 0 [ f :n - 1  forward :n ],  the call f N  *)
(* yields forward 1, forward 2, ..., forward N.                            *)
(***************************************************************************)
C1_BindingsPerInvocation ==
    (Finished /\ Pristine /\ prog.id = "Recursion") =>
        /\ raised = <<>>
        /\ Len(yielded) = prog.n
        /\ \A j \in 1..Len(yielded) : yielded[j] = forward(F(j))

(***************************************************************************)
(* C2: inside a call, an identifier is resolved against the innermost      *)
(* active call's parameters first: when f(a) calls g(a) with :a + 1, the   *)
(* :a read in g's body is g's argument, whichever of f and g was defined   *)
(* first.                                                                  *)
(***************************************************************************)
C2_InnermostCallFirst ==
    (Finished /\ Pristine /\ prog.id \in {"ShadowFG", "ShadowGF"}) =>
        /\ raised = <<>>
        /\ yielded = <<forward(F(prog.n + 1))>>

(***************************************************************************)
(* C3: every argument of a call is evaluated in the caller's context       *)
(* before any parameter is bound: f(a, b) calling itself with (:b, :a)     *)
(* runs the inner call with a and b exchanged.                             *)
(***************************************************************************)
C3_ArgumentsBeforeBinding ==
    (Finished /\ Pristine /\ prog.id = "Swap") =>
        /\ raised = <<>>
        /\ yielded = <<forward(F(prog.n + 1)), forward(F(prog.n))>>

(***************************************************************************)
(* C4: evaluating an identifier that is not true/false, not a parameter of *)
(* an active call and not a variable fails with UnboundVariable(name), and *)
(* the command that reads it yields nothing.                               *)
(***************************************************************************)
UnresolvedAtHand ==
    /\ Case(ValueCases)
    /\ Has(Command, "value")
    /\ Command.value.k = "str"
    /\ Command.value.s \notin {"true", "false"} \cup DOMAIN _variables
                              \cup ActiveParameters

C4_UnresolvedIdentifierFails ==
    [][UnresolvedAtHand =>
          /\ raised' # <<>>
          /\ RootCause(raised'[1]).type = "UnboundVariable"
          /\ RootCause(raised'[1]).name = Command.value.s
          /\ yielded' = yielded]_vars

(***************************************************************************)
(* C5: an interpretation run with a fresh Interpreter yields what it       *)
(* yields over the freshly parsed tree, whether or not another Interpreter *)
(* ran over the same tree before it, fully or up to some yield.            *)
(***************************************************************************)
C5_RunsDoNotObserveEachOther ==
    (Finished /\ iters = 1) =>
        /\ prog.id = "ListProgram" =>
               raised = <<>> /\ yielded = <<print(PyInt(3 + 1))>>
        /\ prog.id = "SetposProgram" =>
               /\ raised = <<>>
               /\ yielded = <<setpos(PyInt(Len(<<1, 2>>)), F(prog.n)), turtle("penup")>>

(***************************************************************************)
(* C6: the tree the parser tests expect for "forward 100" is a tree the    *)
(* Interpreter accepts: it yields one forward command with value 100 and   *)
(* raises no InvalidTree.                                                  *)
(***************************************************************************)
C6_TestTreeIsInterpreted ==
    prog.id = "forward_response" =>
        /\ raised = <<>>
        /\ Finished => Len(yielded) = 1 /\ yielded[1].value.n = 100

(***************************************************************************)
(* C7: a list operation on a name that is not a key of lists, as a command *)
(* or as an expression, fails with UnboundVariableList and leaves the      *)
(* variables, functions and lists as they were.                            *)
(***************************************************************************)
UnboundListAtHand ==
    \/ /\ Case({"list"})
       /\ Has(Command, "list_name")
       /\ Command.list_name \notin DOMAIN _lists
    \/ /\ Case(ValueCases)
       /\ Has(Command, "value")
       /\ Command.value.k = "dict"
       /\ Has(Command.value.d, "name")
       /\ Command.value.d.name = "list"
       /\ Command.value.d.list_name \notin DOMAIN _lists

C7_UnboundListFails ==
    [][UnboundListAtHand =>
          /\ raised' # <<>>
          /\ RootCause(raised'[1]).type = "UnboundVariableList"
          /\ UNCHANGED <<_variables, _fuctions, _lists>>]_vars

(***************************************************************************)
(* C8: on a list of length n, a get, set or remove at an index outside     *)
(* 0..n-1, an insert at an index outside 0..n, and a remove_value of an    *)
(* absent value end the run with an error: nothing is yielded after them.  *)
(***************************************************************************)
OutOfBounds(fn, index, value, xs) ==
    CASE fn \in {"get", "set", "remove"} -> index \notin 0..(Len(xs) - 1)
      [] fn = "insert" -> index \notin 0..Len(xs)
      [] fn = "remove_value" -> \A j \in 1..Len(xs) : ~PyEq(xs[j], value)
      [] OTHER -> FALSE

C8_OutOfBoundsIsFatal ==
    (/\ prog.id = "Bounds"
     /\ Pristine
     /\ OutOfBounds(prog.fn, prog.n - 1, BoundsValue(prog.fn, prog.n), BoundsList)) =>
        /\ yielded = <<>>
        /\ Finished => raised # <<>>

(***************************************************************************)
(* C9: repeat evaluates its count once, coerces it to an integer n and     *)
(* runs its body n times over the one context: the output is the bodies'   *)
(* outputs in order, each iteration sees what the earlier ones assigned,   *)
(* and assigning the count variable in the body does not change n.         *)
(***************************************************************************)
RepeatPrograms == {"RepeatCount", "RepeatVar", "RepeatList", "RepeatCoerced"}

RepeatExpected(p) ==
    CASE p.id = "RepeatCount" -> [j \in 1..p.n |-> forward(F(j))]
      [] p.id = "RepeatVar" ->
           [j \in 1..p.n |-> forward(F(10))] \o <<forward(F(p.n + p.n))>>
      [] p.id = "RepeatList" -> [j \in 1..p.n |-> print(PyInt(j))]
      [] p.id = "RepeatCoerced" ->
           IF p.n = 0 THEN <<forward(F(20))>> ELSE <<forward(F(10))>>

C9_RepeatRunsBodyCountTimes ==
    prog.id \in RepeatPrograms =>
        /\ raised = <<>>
        /\ IsPrefix(yielded, RepeatExpected(prog))
        /\ Finished => yielded = RepeatExpected(prog)
        /\ \A j \in 1..Len(stack) :
              stack[j].k = "repeat" =>
                 /\ stack[j].pc \in 1..stack[j].n
                 /\ prog.id # "RepeatCoerced" => stack[j].n = prog.n

C9_Witness ==
    /\ Finished
    /\ prog.id = "RepeatVar"
    /\ prog.n >= 2
    /\ Len(yielded) = prog.n + 1
    /\ _variables["c"] = F(prog.n + prog.n)

(***************************************************************************)
(* C10: a call fails before any command of the body runs: with             *)
(* UndefinedFunction(name) for a name that is not in the function table,   *)
(* and with InvalidFunctionArguments(name, expected, received) exactly     *)
(* when the number of arguments differs from the number of parameters of   *)
(* the func_def, expected being the length of its parameter sequence and   *)
(* received the length of the argument sequence; the parameters' bindings  *)
(* are then as they were.                                                  *)
(***************************************************************************)
DefinedParameters == TreeOf(prog)["tokens"][1].arguments

C10_CallFailsBeforeBody ==
    /\ (Finished /\ prog.id = "Undefined") =>
          /\ yielded = <<forward(F(1))>>
          /\ raised = <<From("UndefinedFunction", "g", KeyError)>>
    /\ (Finished /\ prog.id \in {"Arguments", "SameName"}) =>
          IF prog.n = Len(DefinedParameters)
          THEN raised = <<>> /\ yielded = <<forward(F(9)), forward(F(2))>>
          ELSE /\ yielded = <<>>
               /\ raised = <<Exc("InvalidFunctionArguments", "f",
                                 Len(DefinedParameters), prog.n, <<>>)>>
               /\ \A a \in 1..Len(_fuctions[1].arguments) :
                     _fuctions[1].arguments[a].val = Str("")

(***************************************************************************)
(* C11: an error raised while the body of a called function is interpreted *)
(* reaches the consumer wrapped in one FunctionExecutionError(func_name)   *)
(* per active call, outermost call first, each with the error it wraps as  *)
(* its cause and the original error innermost; it is never the bare inner  *)
(* error nor UndefinedFunction of the outer function.  An error raised     *)
(* while the arguments of a call are evaluated is not wrapped by that      *)
(* call.                                                                   *)
(***************************************************************************)
CallChain ==
    LET at == {j \in 1..Len(stack) : stack[j].k = "func_call"}
        nth(m) == CHOOSE j \in at : Cardinality({i \in at : i < j}) = m - 1
    IN  [m \in 1..Cardinality(at) |-> stack[nth(m)].func_name]

RECURSIVE WrappedBy(_, _)
WrappedBy(names, e) ==
    IF names = <<>> THEN e.type # "FunctionExecutionError"
    ELSE /\ e.type = "FunctionExecutionError"
         /\ e.name = Head(names)
         /\ Len(e.cause) = 1
         /\ WrappedBy(Tail(names), e.cause[1])

ExpectedError(kind) ==
    CASE kind = "unbound" -> "UnboundVariable"
      [] kind = "color" -> "InvalidColor"
      [] kind = "malformed" -> "InvalidTree"
      [] kind = "unrecognized" -> "InvalidCommand"
      [] kind = "undefined" -> "UndefinedFunction"
      [] kind = "arity" -> "InvalidFunctionArguments"
      [] kind = "list" -> "ValueError"
      [] kind = "nested" -> "FunctionExecutionError"
      [] OTHER -> "UnboundVariable"

C11_BodyErrorsAreWrapped ==
    [][/\ (raised = <<>> /\ raised' # <<>> /\ phase = "running") =>
              WrappedBy(CallChain, raised'[1])
       /\ (prog.id = "BodyError" /\ Pristine /\ raised' # <<>>) =>
              IF prog.fn = "argument"
              THEN raised'[1].type = "UnboundVariable" /\ yielded' = <<>>
              ELSE /\ raised'[1].type = "FunctionExecutionError"
                   /\ raised'[1].name = "f"
                   /\ raised'[1].cause[1].type = ExpectedError(prog.fn)
                   /\ yielded' = <<forward(F(1))>>]_vars

C11_Witness ==
    /\ Finished
    /\ prog.id = "BodyError"
    /\ prog.fn = "undefined"
    /\ yielded = <<forward(F(1))>>
    /\ raised = <<From("FunctionExecutionError", "f",
                       From("UndefinedFunction", "g", KeyError))>>

(***************************************************************************)
(* C12: a failure rolls nothing back and nothing follows it.  The step     *)
(* that raises leaves the commands yielded so far and the variables as     *)
(* they were and removes no function and no list; once the generator has   *)
(* raised, a further pull changes neither the output nor the context.  For *)
(* a program that fails at its eighth command, the output is what the      *)
(* first seven commands yielded and their assignments are in place.        *)
(***************************************************************************)
FunctionNames(fs) == [j \in 1..Len(fs) |-> fs[j].name]

C12_NoRollbackNothingAfter ==
    [][/\ (raised = <<>> /\ raised' # <<>> /\ phase = "running") =>
              /\ yielded' = yielded
              /\ _variables' = _variables
              /\ FunctionNames(_fuctions') = FunctionNames(_fuctions)
              /\ DOMAIN _lists' = DOMAIN _lists
       /\ (phase = "finished" /\ raised # <<>> /\ runs' = runs /\ iters' = iters) =>
              UNCHANGED <<yielded, raised, phase, tree, _variables, _fuctions, _lists>>
       /\ (prog.id = "Partial" /\ Pristine /\ raised' # <<>>) =>
              /\ yielded' = <<forward(F(prog.n)), print(PyInt(2))>>
              /\ _variables' = [v \in {"x"} |-> F(prog.n + 1)]
              /\ FunctionNames(_fuctions') = <<"f">>
              /\ DOMAIN _lists' = {"L"}
              /\ Deref(_lists'["L"], tree') = <<F(2), F(1)>>]_vars

C12_Witness ==
    /\ prog.id = "Partial"
    /\ prog.n = 1
    /\ Pristine
    /\ stopped
    /\ raised = <<From("UnboundVariable", "q", KeyError)>>
    /\ yielded = <<forward(F(1)), print(PyInt(2))>>

(***************************************************************************)
(* C13: every yielded item is one of the twelve primitive kinds, at any    *)
(* nesting depth.  A step that executes a primitive node without failing   *)
(* yields exactly one item, of the node's kind; a step that executes a     *)
(* make, list_make, list, func_def, func_call, repeat or if node yields    *)
(* nothing.                                                                *)
(***************************************************************************)
Primitives == Movements \cup Turtles \cup {"setpos", "setpencolor", "setpensize", "print"}
ControlNodes == {"make", "list_make", "list", "func_def", "func_call", "repeat", "if"}

C13_OnlyPrimitivesAreYielded ==
    [][/\ \A j \in 1..Len(yielded') :
              "name" \in DOMAIN yielded'[j] /\ yielded'[j].name \in Primitives
       /\ (Case(Primitives) /\ raised' = <<>>) =>
              /\ Len(yielded') = Len(yielded) + 1
              /\ SubSeq(yielded', 1, Len(yielded)) = yielded
              /\ yielded'[Len(yielded')].name = Command.name
       /\ Case(ControlNodes) => yielded' = yielded]_vars

C13_Witness ==
    /\ prog.id = "Misc"
    /\ Finished
    /\ {yielded[j].name : j \in 1..Len(yielded)} =
          Turtles \cup {"setpos", "setpencolor", "setpensize", "print"}
    /\ Len(yielded) = 8

C16_SetpencolorChecksThePalette ==
    [][(Case({"setpencolor"}) /\ Has(Command, "color")) =>
          IF Command.color \in {"white", "black", "red", "green", "blue", "cyan"}
          THEN raised' = <<>> /\ yielded' = Append(yielded, Command)
          ELSE /\ yielded' = yielded
               /\ raised' # <<>>
               /\ RootCause(raised'[1]).type = "InvalidColor"
               /\ RootCause(raised'[1]).name = Command.color
               /\ RootCause(raised'[1]).supported_colors =
                     <<"white", "black", "red", "green", "blue", "cyan">>]_vars

C16_Witness ==
    /\ prog.id = "Palette"
    /\ Finished
    /\ runs = 2
    /\ Len(yielded) = 6
    /\ yielded[6] = setpencolor("cyan")
    /\ raised = <<InvalidColor("purple",
                               <<"white", "black", "red", "green", "blue", "cyan">>)>>

(***************************************************************************)
(* C17: list round trip.  On a list of n elements, insert L i v with       *)
(* 0 <= i <= n leaves v at index i and n + 1 elements, the others in their *)
(* order; remove_value L v removes the first element equal to v.  For      *)
(* list_make "L [1 2]  insert L i v: get L i is v and len L is 3, and      *)
(* after remove_value L v len L is 2 again and, when v was not in the      *)
(* list, L is [1 2] again.                                                 *)
(***************************************************************************)
ListNamed(ls, t, name) == Deref(ls[name], t)

ListStep(function) ==
    /\ Case({"list"})
    /\ Has(Command, "list_name") /\ Has(Command, "function")
    /\ Has(Command, "index") /\ Has(Command, "value")
    /\ Command.function = function
    /\ Command.list_name \in DOMAIN _lists
    /\ Command.index.k = "float" /\ Command.value.k = "float"

FirstEqual(xs, v) ==
    IF \E j \in 1..Len(xs) : xs[j].n = v.n
    THEN CHOOSE j \in 1..Len(xs) : xs[j].n = v.n /\ \A h \in 1..(j - 1) : xs[h].n # v.n
    ELSE 0

RoundTripExpected(p) ==
    LET v == RoundTripValue(p.fn)
        put == [j \in 1..3 |-> IF j <= p.n THEN RoundTripList[j]
                               ELSE IF j = p.n + 1 THEN v ELSE RoundTripList[j - 1]]
        at == FirstEqual(put, v)
        left == [j \in 1..2 |-> IF j < at THEN put[j] ELSE put[j + 1]]
    IN  <<print(v), print(PyInt(3)), print(PyInt(2)), print(left[1]), print(left[2])>>

C17_ListRoundTrip ==
    [][/\ (ListStep("insert") /\ Command.index.n \in 0..Len(ListNamed(_lists, tree, Command.list_name))) =>
              LET xs == ListNamed(_lists, tree, Command.list_name)
                  ys == ListNamed(_lists', tree', Command.list_name)
                  i == Command.index.n
              IN  /\ raised' = <<>>
                  /\ Len(ys) = Len(xs) + 1
                  /\ ys[i + 1] = Command.value
                  /\ \A j \in 1..Len(xs) : ys[IF j <= i THEN j ELSE j + 1] = xs[j]
       /\ (ListStep("remove_value")
              /\ FirstEqual(ListNamed(_lists, tree, Command.list_name), Command.value) # 0) =>
              LET xs == ListNamed(_lists, tree, Command.list_name)
                  ys == ListNamed(_lists', tree', Command.list_name)
                  at == FirstEqual(xs, Command.value)
              IN  /\ raised' = <<>>
                  /\ Len(ys) = Len(xs) - 1
                  /\ \A j \in 1..Len(ys) : ys[j] = xs[IF j < at THEN j ELSE j + 1]
       /\ (prog.id = "RoundTrip" /\ prog.n <= Len(RoundTripList) /\ Pristine) =>
              /\ raised' = <<>>
              /\ IsPrefix(yielded', RoundTripExpected(prog))
              /\ phase' = "finished" => yielded' = RoundTripExpected(prog)
              /\ (phase' = "finished" /\ prog.fn = "fresh") =>
                     ListNamed(_lists', tree', "L") = RoundTripList]_vars

C17_Witness ==
    /\ prog.id = "RoundTrip"
    /\ prog.fn = "second"
    /\ prog.n = 2
    /\ Finished
    /\ Pristine
    /\ yielded = <<print(F(2)), print(PyInt(3)), print(PyInt(2)), print(F(1)), print(F(2))>>

(***************************************************************************)
(* C18: every execution of a list_make node stores under list_name the     *)
(* node's literal elements evaluated in the context of that moment (the    *)
(* empty sequence for the sentinel), whatever was done to the list since   *)
(* an earlier execution of the same node: executed again in a repeat body  *)
(* or by a second call, the node resets the list to the literal.  Stated   *)
(* for the first iteration of the first Interpreter over the tree.         *)
(***************************************************************************)
\* the literal of the list_make node at hand, as the tree had it at first
Literal == CmdsAt(TreeOf(prog), Top.cmds)[Top.pc].list

C18_ListMakeResets ==
    [][(/\ Case({"list_make"})
        /\ Has(Command, "list_name") /\ Has(Command, "list")
        /\ Pristine
        /\ raised' = <<>>) =>
          ListNamed(_lists', tree', Command.list_name) =
             IF Literal.k = "list"
             THEN [j \in 1..Len(Literal.xs) |-> _evaluate(Literal.xs[j], Context).val]
             ELSE <<>>]_vars

(***************************************************************************)
(* C19: every execution of a setpos node yields the values its x and y     *)
(* expressions have in the context of that moment, also when the node is   *)
(* executed again after a variable or parameter they read has changed; and *)
(* the commands yielded before stay as they were.  Stated for the first    *)
(* iteration of the first Interpreter over the tree.                       *)
(***************************************************************************)
\* the node at hand, as the tree had it at first
Original == CmdsAt(TreeOf(prog), Top.cmds)[Top.pc]

C19_SetposEvaluatesEachTime ==
    [][(Case({"setpos"}) /\ Has(Command, "x") /\ Has(Command, "y") /\ Pristine) =>
          LET x == _evaluate(Original.x, Context)
              y == _evaluate(Original.y, x.ctx)
          IN  (x.exc = <<>> /\ y.exc = <<>>) =>
                 /\ raised' = <<>>
                 /\ yielded' = Append(yielded, setpos(x.val, y.val))]_vars

(***************************************************************************)
(* C20: cooperative cancellation.  Once a worker's _switch is off (stop()  *)
(* has been called on it, is_running() is false), the worker emits no      *)
(* further execute event, however the stop event interleaves with the      *)
(* worker's emit and sleep loop.                                           *)
(***************************************************************************)
Executes(events) ==
    Cardinality({j \in 1..Len(events) : events[j].event = "execute"})

C20_NoExecuteAfterStop ==
    [][\A w \in 1..MaxWorkers :
          ~is_running(w) => Executes(emitted'[w]) = Executes(emitted[w])]_vars

C20_Witness ==
    \E w \in 1..MaxWorkers :
       /\ start_pc[w] = "returned"
       /\ logo_runner[w] > Executes(emitted[w])
       /\ stops > 0
       /\ emitted[w][1] = [event |-> "task", data |-> "running"]
       /\ emitted[w][2] = [event |-> "execute", data |-> "command"]
       /\ emitted[w][3] = [event |-> "task", data |-> "done"]

(***************************************************************************)
(* C21: each run of a worker emits exactly one terminal task status, done  *)
(* or failed, after the running status, and nothing after it: no run that  *)
(* began with the running status has two terminal statuses or an event     *)
(* after its terminal status, and a worker that has returned has emitted   *)
(* one, whether the run ended by itself, failed or was stopped.            *)
(***************************************************************************)
Terminals(events) ==
    {j \in 1..Len(events) :
        events[j].event = "task" /\ events[j].data \in {"done", "failed"}}

C21_OneTerminalStatus ==
    \A w \in 1..MaxWorkers :
       (emitted[w] # <<>> /\ emitted[w][1] = [event |-> "task", data |-> "running"]) =>
          /\ Cardinality(Terminals(emitted[w])) <= 1
          /\ \A j \in Terminals(emitted[w]) : j = Len(emitted[w])
          /\ start_pc[w] = "returned" => Terminals(emitted[w]) # {}

(***************************************************************************)
(* C22: the registry tracks every running worker of a client: while the    *)
(* client is connected, each worker that was started for it and is still   *)
(* running is the worker the registry holds for the client, so that a stop *)
(* event reaches it; also when a second run starts while the first is in   *)
(* progress, and when the first run finishes while the second is running.  *)
(***************************************************************************)
Running == {w \in 1..MaxWorkers : on_run_pc[w] # "none" /\ is_running(w)}

C22_RegistryTracksRunningWorkers ==
    connected => \A w \in Running : workers = w
====
